---- MODULE Spec2Model ----
(***************************************************************************)
(* State machine of the <helium-animated-pages> element                    *)
(* (src/helium-animated-pages.js): the `selected` setter, select(),        *)
(* selectNext(), selectPrevious(), the rule matcher _animationClasses(),   *)
(* _beginAnimation() and the two animation-end handlers.                   *)
(*                                                                         *)
(* The DOM below the element is fixed during a behaviour: a sequence of    *)
(* elements in document order, each with its parent (0 = the host element) *)
(* and the value of the attribute named by attrForSelected.                *)
(***************************************************************************)
EXTENDS Integers, Sequences, FiniteSets, TLC

\* Largest number of pages (direct children) of the element.
MaxPages == 3

\* Number of page identifiers the rule-matcher specification ranges over.
MaxRuleIds == 2

-----------------------------------------------------------------------------
(* JavaScript values.  A number is kept in halves (h = 2 * value), so that *)
(* Number.isInteger and the sign test are computed, not assumed.           *)

Undefined == [t |-> "undefined", h |-> 0, s |-> ""]
JSNull    == [t |-> "null",      h |-> 0, s |-> ""]
Other     == [t |-> "object",    h |-> 0, s |-> ""]
Str(x)    == [t |-> "string",    h |-> 0, s |-> x]
Num(n)    == [t |-> "number",    h |-> 2 * n, s |-> ""]
Half(k)   == [t |-> "number",    h |-> k, s |-> ""]

\* The null element (querySelector's null, children[i]'s undefined).
NoElement == 0

Digit(d) ==
  CASE d = 0 -> "0" [] d = 1 -> "1" [] d = 2 -> "2" [] d = 3 -> "3"
    [] d = 4 -> "4" [] d = 5 -> "5" [] d = 6 -> "6" [] d = 7 -> "7"
    [] d = 8 -> "8" [] d = 9 -> "9"

RECURSIVE IntToString(_)
IntToString(n) ==
  IF n < 0 THEN "-" \o IntToString(-n)
  ELSE IF n < 10 THEN Digit(n)
  ELSE IntToString(n \div 10) \o Digit(n % 10)

\* What a template literal `${v}` yields.
TemplateString(v) ==
  CASE v.t = "string"    -> v.s
    [] v.t = "undefined" -> "undefined"
    [] v.t = "null"      -> "null"
    [] v.t = "object"    -> "[object Object]"
    [] v.t = "number"    ->
         IF v.h % 2 = 0 THEN IntToString(v.h \div 2)
         ELSE (IF v.h < 0 THEN "-" ELSE "")
              \o IntToString((IF v.h < 0 THEN -v.h ELSE v.h) \div 2) \o ".5"

\* JavaScript truthiness of a value.
Truthy(v) ==
  CASE v.t = "string" -> v.s # ""
    [] v.t = "number" -> v.h # 0
    [] v.t = "object" -> TRUE
    [] OTHER          -> FALSE

-----------------------------------------------------------------------------
(* The DOM under the element.                                              *)

Names == <<"a", "b", "c", "d", "e">>

\* n pages, page i carrying the attribute value Names[i].
Regular(n) == [i \in 1..n |-> [parent |-> 0, attr |-> Str(Names[i])]]

\* Page k has no attribute.
MissingAttr(n, k) == [Regular(n) EXCEPT ![k].attr = JSNull]

\* Page k repeats the attribute value of the first page.
Duplicate(n, k) == [Regular(n) EXCEPT ![k].attr = Str(Names[1])]

\* An element nested inside the first page that carries the attribute value v.
Nested(n, v) ==
  <<Regular(n)[1], [parent |-> 1, attr |-> Str(v)]>> \o SubSeq(Regular(n), 2, n)

Doms ==
  UNION {
    {Regular(n)}
      \cup {MissingAttr(n, k) : k \in 1..n}
      \cup {Duplicate(n, k) : k \in 2..n}
      \cup (IF n = 0 THEN {}
            ELSE {Nested(n, v) : v \in {Names[k] : k \in 1..n} \cup {"z"}})
    : n \in 0..MaxPages }

-----------------------------------------------------------------------------
(* Rule tables (the animationClasses property).                            *)

Rule(k) == [t |-> "object", in |-> k \o "-in", out |-> k \o "-out"]
NoRule  == [t |-> "undefined", in |-> "", out |-> ""]
NullRule == [t |-> "null", in |-> "", out |-> ""]

Table(keys) == [defined |-> TRUE, rules |-> [k \in keys |-> Rule(k)]]
NoTable == [defined |-> FALSE, rules |-> [k \in {} |-> Rule(k)]]

Tables ==
  { NoTable,
    Table({"default"}),
    Table({"*_1", "*_0"}),
    Table({"_a", "*_a", "a_b", "*_b", "a_*",
           "_0", "*_0", "0_1", "*_1", "0_*", "default"}) }

-----------------------------------------------------------------------------
VARIABLES
  dom,                \* the elements under the host, in document order
  attrForSelected,    \* TRUE: the attrForSelected property is set
  animationClasses,   \* the rule table, or NoTable
  _selected,
  _animating,
  _inAnimationEnded,
  _outAnimationEnded,
  _inPage,
  _outPage,
  _currentClasses,
  active,             \* the elements that carry the 'active' attribute
  classes,            \* element -> the classes the element has been given
  inListeners,        \* elements _inAnimationBound is attached to
  outListeners,       \* elements _outAnimationBound is attached to
  lastCall,           \* the last operation run, its argument and outcome
  startedBy           \* the operation that started the transition in flight

config == <<dom, attrForSelected, animationClasses>>
fields == <<_selected, _animating, _inAnimationEnded, _outAnimationEnded,
            _inPage, _outPage, _currentClasses>>
markers == <<active, classes>>
listeners == <<inListeners, outListeners>>
vars == <<config, fields, markers, listeners, lastCall, startedBy>>

Elements == 1..Len(dom)

\* this.children: the direct children, in document order.
Pages == {e \in Elements : dom[e].parent = 0}

\* Array.from(this.children).indexOf(e)
IndexOf(e) == IF e \in Pages THEN Cardinality({p \in Pages : p < e}) ELSE -1

\* this.children[v]: the child at index v, undefined when v is no index of a
\* child
ChildAt(v) ==
  LET hit == {p \in Pages : v = Num(IndexOf(p))}
  IN IF hit = {} THEN NoElement ELSE CHOOSE p \in hit : TRUE

\* this.querySelector(`[${attrForSelected}="${v}"]`): the first element in
\* document order, at any depth, whose attribute has the value v.
QuerySelector(v) ==
  LET hit == {e \in Elements : dom[e].attr = Str(v)}
  IN IF hit = {} THEN NoElement
     ELSE CHOOSE e \in hit : \A f \in hit : e <= f

GetAttribute(e) == dom[e].attr

\* get selectedItem
SelectedItem ==
  IF Truthy(_selected) \/ _selected = Num(0)
  THEN IF attrForSelected
       THEN QuerySelector(TemplateString(_selected))
       ELSE ChildAt(_selected)
  ELSE NoElement

\* The check without the sign and integer tests on a number.
IsStringModeAnyNumber(next) ==
  CASE next.t = "string" -> "true"
    [] next.t = "number" -> "false"
    [] OTHER -> "throw"

\* _isStringMode(next): "true", "false", or "throw"
IsStringMode(next) ==
  CASE next.t = "string" -> "true"
    [] next.t = "number" /\ next.h >= 0 /\ next.h % 2 = 0 -> "false"
    [] OTHER -> "throw"

\* The previous identifier with null, not '', when there is no outgoing page.
PrevIdNull(outPage, stringMode) ==
  IF outPage # NoElement /\ stringMode THEN GetAttribute(outPage)
  ELSE IF outPage # NoElement THEN Num(IndexOf(outPage))
  ELSE JSNull

\* const prev = this._outPage && stringMode ? getAttribute : this._outPage ?
\*   indexOf : ''
PrevId(outPage, stringMode) ==
  IF outPage # NoElement /\ stringMode THEN GetAttribute(outPage)
  ELSE IF outPage # NoElement THEN Num(IndexOf(outPage))
  ELSE Str("")

FullId(next, prev) == TemplateString(prev) \o "_" \o TemplateString(next)
ToId(next)         == "*_" \o TemplateString(next)
FromId(prev)       == TemplateString(prev) \o "_*"

\* rules[k], the value of a property that may be absent
Lookup(rules, k) == IF k \in DOMAIN rules THEN rules[k] ELSE NoRule

\* The matcher with the two wildcard rules tried in the other order.
AnimationClassesFromFirst(rules, next, prev) ==
  IF FullId(next, prev) \in DOMAIN rules THEN rules[FullId(next, prev)]
  ELSE IF FromId(prev) \in DOMAIN rules THEN rules[FromId(prev)]
  ELSE IF ToId(next) \in DOMAIN rules THEN rules[ToId(next)]
  ELSE Lookup(rules, "default")

\* _animationClasses(next, prev) on the table `rules`
AnimationClassesOf(rules, next, prev) ==
  IF FullId(next, prev) \in DOMAIN rules THEN rules[FullId(next, prev)]
  ELSE IF ToId(next) \in DOMAIN rules THEN rules[ToId(next)]
  ELSE IF FromId(prev) \in DOMAIN rules THEN rules[FromId(prev)]
  ELSE Lookup(rules, "default")

NeverBusy == FALSE

\* if (this._animating) return
Busy == _animating

NeverSamePage(inPage, outPage) == FALSE

\* if (this._inPage === this._outPage) return
SamePage(inPage, outPage) == inPage = outPage

\* The attribute taken from the inbound page instead of the outbound one.
SettleActiveInbound(act, inPage, outPage) ==
  IF outPage # NoElement THEN act \ {inPage} ELSE act

\* if (this._outPage) this._outPage.removeAttribute('active')
SettleActive(act, inPage, outPage) ==
  IF outPage # NoElement THEN act \ {outPage} ELSE act

EitherEnded(inEnded, outEnded) == inEnded \/ outEnded

\* if (this._inAnimationEnded && this._outAnimationEnded)
BothEnded(inEnded, outEnded) == inEnded /\ outEnded

\* selectNext: prevIndex + 1 >= children.length ? 0 : prevIndex + 1
NextIndex(prevIndex, length) ==
  IF prevIndex + 1 >= length THEN 0 ELSE prevIndex + 1

\* selectPrevious: prevIndex - 1 < 0 ? children.length - 1 : prevIndex - 1
PreviousIndex(prevIndex, length) ==
  IF prevIndex - 1 < 0 THEN length - 1 ELSE prevIndex - 1

\* The handler leaving its listener attached.
KeepListener(attached, e) == attached

\* e.removeEventListener(this._animationEvent, bound)
RemoveListener(attached, e) == attached \ {e}

AddClass(cls, e, c) == [cls EXCEPT ![e] = @ \cup {c}]
RemoveClass(cls, e, c) == [cls EXCEPT ![e] = @ \ {c}]

Call(op, arg, prev, outcome, error) ==
  [op |-> op, arg |-> arg, prev |-> prev, outcome |-> outcome, error |-> error]

-----------------------------------------------------------------------------
Init ==
  /\ dom \in Doms
  /\ attrForSelected \in BOOLEAN
  /\ animationClasses \in Tables
  /\ _selected = Undefined
  /\ _animating = FALSE
  /\ _inAnimationEnded = FALSE
  /\ _outAnimationEnded = FALSE
  /\ _inPage = NoElement
  /\ _outPage = NoElement
  /\ _currentClasses = NullRule
  /\ active = {}
  /\ classes = [e \in Elements |-> {}]
  /\ inListeners = {}
  /\ outListeners = {}
  /\ lastCall = Call("constructor", Undefined, Undefined, "", "")
  /\ startedBy = ""

\* _beginAnimation() with this._inPage = inPage, this._outPage = outPage and
\* this._currentClasses = cc already assigned by the setter.  Reading .out or
\* .in of an undefined rule throws a TypeError where the code reads it.
BeginAnimation(op, next, prev, inPage, outPage, cc) ==
  /\ _animating' = TRUE
  /\ startedBy' = op
  /\ inListeners' = inListeners \cup {inPage}
  /\ _inAnimationEnded' = _inAnimationEnded
  /\ IF outPage # NoElement
     THEN /\ outListeners' = outListeners \cup {outPage}
          /\ _outAnimationEnded' = _outAnimationEnded
     ELSE /\ outListeners' = outListeners
          /\ _outAnimationEnded' = TRUE
  /\ IF cc.t # "object"
     THEN /\ UNCHANGED markers
          /\ lastCall' = Call(op, next, prev, "threw", "TypeError")
     ELSE /\ classes' =
               AddClass(IF outPage # NoElement
                        THEN AddClass(classes, outPage, cc.out)
                        ELSE classes,
                        inPage, cc.in)
          /\ active' = active \cup {inPage}
          /\ lastCall' = Call(op, next, prev, "begun", "")

\* A call that changes nothing and ends with `outcome` (and `error` thrown).
NoEffect(op, next, outcome, error) ==
  /\ UNCHANGED <<config, fields, markers, listeners, startedBy>>
  /\ lastCall' = Call(op, next, Undefined, outcome, error)

\* set selected(next), entered through the operation `op`
SetSelected(op, next) ==
  IF ~animationClasses.defined
  THEN NoEffect(op, next, "threw", "animationClasses must be defined")
  ELSE IF Busy
  THEN NoEffect(op, next, "ignored", "")
  ELSE IF IsStringMode(next) = "throw"
  THEN NoEffect(op, next, "threw", "next must be a string or a positive integer")
  ELSE
    LET stringMode == IsStringMode(next) = "true" IN
    IF stringMode /\ ~attrForSelected
    THEN NoEffect(op, next, "threw", "attrForSelected must be defined if next is a string")
    ELSE
      LET inPage  == IF stringMode THEN QuerySelector(next.s)
                     ELSE ChildAt(next)
          outPage == SelectedItem
      IN
      IF inPage = NoElement
      THEN /\ _inPage' = inPage
           /\ _outPage' = outPage
           /\ UNCHANGED <<config, _selected, _animating, _inAnimationEnded,
                          _outAnimationEnded, _currentClasses, markers, listeners,
                          startedBy>>
           /\ lastCall' = Call(op, next, Undefined, "threw", "No page found")
      ELSE IF SamePage(inPage, outPage)
      THEN /\ _inPage' = inPage
           /\ _outPage' = outPage
           /\ UNCHANGED <<config, _selected, _animating, _inAnimationEnded,
                          _outAnimationEnded, _currentClasses, markers, listeners,
                          startedBy>>
           /\ lastCall' = Call(op, next, Undefined, "same", "")
      ELSE
        LET prev == PrevId(outPage, stringMode)
            cc   == AnimationClassesOf(animationClasses.rules, next, prev)
        IN
        /\ _inPage' = inPage
        /\ _outPage' = outPage
        /\ _selected' = IF attrForSelected THEN GetAttribute(inPage) ELSE next
        /\ _currentClasses' = cc
        /\ UNCHANGED config
        /\ BeginAnimation(op, next, prev, inPage, outPage, cc)

\* The values a caller may pass as `next`.
NextValues ==
  {Num(i) : i \in -1..MaxPages} \cup {Half(1), Other}
    \cup {Str(Names[k]) : k \in 1..MaxPages} \cup {Str("z")}

\* select(next), whose whole body is the assignment this.selected = next: an
\* assignment to `selected` by a caller is this same action.
Select(next) == SetSelected("select", next)

\* selectNext()
SelectNext ==
  IF Cardinality(Pages) = 0
  THEN NoEffect("selectNext", Undefined, "threw", "This component has no children to animate")
  ELSE SetSelected("selectNext",
                   Num(NextIndex(IndexOf(SelectedItem), Cardinality(Pages))))

\* selectPrevious()
SelectPrevious ==
  IF Cardinality(Pages) = 0
  THEN NoEffect("selectPrevious", Undefined, "threw", "This component has no children to animate")
  ELSE SetSelected("selectPrevious",
                   Num(PreviousIndex(IndexOf(SelectedItem), Cardinality(Pages))))

\* _onAnimationEnd(), with the two flags as the calling handler left them
OnAnimationEnd(op, inEnded, outEnded) ==
  IF BothEnded(inEnded, outEnded)
  THEN /\ _inAnimationEnded' = FALSE
       /\ _outAnimationEnded' = FALSE
       /\ _animating' = FALSE
       /\ startedBy' = ""
       /\ IF _currentClasses.t # "object"
          THEN \* this._currentClasses.in throws
               /\ UNCHANGED <<_inPage, _outPage, _currentClasses, markers>>
               /\ lastCall' = Call(op, Undefined, Undefined, "threw", "TypeError")
          ELSE /\ classes' =
                    LET c1 == RemoveClass(classes, _inPage, _currentClasses.in)
                    IN IF _outPage # NoElement
                       THEN RemoveClass(c1, _outPage, _currentClasses.out)
                       ELSE c1
               /\ active' = SettleActive(active, _inPage, _outPage)
               /\ _inPage' = NoElement
               /\ _outPage' = NoElement
               /\ _currentClasses' = NullRule
               /\ lastCall' = Call(op, Undefined, Undefined, "settled", "")
  ELSE /\ _inAnimationEnded' = inEnded
       /\ _outAnimationEnded' = outEnded
       /\ UNCHANGED <<_animating, _inPage, _outPage, _currentClasses, markers,
                      startedBy>>
       /\ lastCall' = Call(op, Undefined, Undefined, "pending", "")

\* _inAnimation(e): the animation-end event reaches the bound listener on e
InAnimation(e) ==
  /\ e \in inListeners
  /\ UNCHANGED <<config, _selected, outListeners>>
  /\ IF _inPage = NoElement
     THEN \* this._inPage.removeEventListener throws
          /\ UNCHANGED <<_animating, _inAnimationEnded, _outAnimationEnded,
                         _inPage, _outPage, _currentClasses, markers, inListeners,
                         startedBy>>
          /\ lastCall' = Call("_inAnimation", Undefined, Undefined, "threw", "TypeError")
     ELSE /\ inListeners' = RemoveListener(inListeners, _inPage)
          /\ OnAnimationEnd("_inAnimation", TRUE, _outAnimationEnded)

\* _outAnimation(e)
OutAnimation(e) ==
  /\ e \in outListeners
  /\ UNCHANGED <<config, _selected, inListeners>>
  /\ IF _outPage = NoElement
     THEN /\ UNCHANGED <<_animating, _inAnimationEnded, _outAnimationEnded,
                         _inPage, _outPage, _currentClasses, markers, outListeners,
                         startedBy>>
          /\ lastCall' = Call("_outAnimation", Undefined, Undefined, "threw", "TypeError")
     ELSE /\ outListeners' = RemoveListener(outListeners, _outPage)
          /\ OnAnimationEnd("_outAnimation", _inAnimationEnded, TRUE)

Next ==
  \/ \E next \in NextValues : Select(next)
  \/ SelectNext
  \/ SelectPrevious
  \/ \E e \in Elements : InAnimation(e)
  \/ \E e \in Elements : OutAnimation(e)

Spec == Init /\ [][Next]_vars

-----------------------------------------------------------------------------
(* Steps of a behaviour, read off the state before and after.              *)

CallOps == {"select", "selectNext", "selectPrevious"}

\* The step is a call of one of the selection operations.
IsCall == lastCall'.op \in CallOps

\* The step delivers an animation-end event to one of the bound listeners.
InFired  == lastCall'.op = "_inAnimation" /\ inListeners' # inListeners
OutFired == lastCall'.op = "_outAnimation" /\ outListeners' # outListeners

\* The step starts a transition; the step settles the running one.
Starts  == ~_animating /\ _animating'
Settles == _animating /\ ~_animating'

-----------------------------------------------------------------------------
\* C1: in a transition that has an outgoing page, the first of the two
\* animation-end events (the other listener is still attached afterwards)
\* leaves isAnimating true and takes 'active' from no page, the outgoing one
\* included; the second one (no listener is left) makes isAnimating false.
\* This holds whichever of the two events comes first.
C1_BothLegs ==
  [][ ((InFired \/ OutFired) /\ _animating /\ _outPage # NoElement) =>
        IF inListeners' \cup outListeners' # {}
        THEN /\ _animating'
             /\ active' = active
             /\ _outPage' = _outPage /\ _inPage' = _inPage
        ELSE ~_animating'
    ]_vars

\* C1 witness: the outbound event came first, the inbound one is pending,
\* and the outgoing page is still marked active.
C1_Witness ==
  /\ _animating
  /\ _outPage # NoElement
  /\ lastCall.op = "_outAnimation"
  /\ lastCall.outcome = "pending"
  /\ _inPage \in inListeners
  /\ outListeners = {}
  /\ _outPage \in active

\* C1, the other order: the inbound event came first and the outbound one
\* is pending.
C1_WitnessInFirst ==
  /\ _animating
  /\ _outPage # NoElement
  /\ lastCall.op = "_inAnimation"
  /\ lastCall.outcome = "pending"
  /\ _outPage \in outListeners
  /\ inListeners = {}
  /\ _outPage \in active

-----------------------------------------------------------------------------
\* C2: while isAnimating is true, a call of select(next) (or the assignment
\* selected = next, which is the same code), selectNext() or selectPrevious()
\* on an element with animationClasses defined and at least one child changes
\* nothing and throws nothing: selected, selectedItem, the in-flight pages,
\* the chosen class pair, every 'active' attribute and class, the pending
\* listeners and the received-event flags are as before, so the running
\* transition settles on the same two pages.
C2_IgnoredWhileAnimating ==
  [][ (IsCall /\ _animating /\ animationClasses.defined /\ Pages # {}) =>
        /\ UNCHANGED <<_selected, _animating, _inPage, _outPage,
                       _currentClasses, active, classes>>
        /\ UNCHANGED <<inListeners, outListeners,
                       _inAnimationEnded, _outAnimationEnded>>
        /\ SelectedItem' = SelectedItem
        /\ lastCall'.error = ""
    ]_vars

\* C2 witness: a select of another, existing page was made during a running
\* transition and ignored.
C2_Witness ==
  /\ _animating
  /\ lastCall.op = "select"
  /\ lastCall.outcome = "ignored"
  /\ ChildAt(lastCall.arg) \notin {NoElement, _inPage, _outPage}

-----------------------------------------------------------------------------
\* next identifies the element p: it is p's index among the children, or
\* (with attrForSelected set) the value of p's attribute.
Identifies(next, p) ==
  /\ p # NoElement
  /\ \/ next.t = "number" /\ p \in Pages /\ next = Num(IndexOf(p))
     \/ next.t = "string" /\ attrForSelected /\ dom[p].attr = next

-----------------------------------------------------------------------------
(* The rule matcher on its own: every table over the four keys that can    *)
(* match some transition, applied to every previous/next identifier pair.  *)

\* Identifiers of the page left ('' when there is none) and the page entered.
RulePrevIds ==
  {Str("")} \cup {Str(Names[k]) : k \in 1..MaxRuleIds}
            \cup {Num(i) : i \in 0..(MaxRuleIds - 1)}
RuleNextIds ==
  {Str(Names[k]) : k \in 1..MaxRuleIds} \cup {Num(i) : i \in 0..(MaxRuleIds - 1)}

RuleTables ==
  UNION { {Table(keys) :
             keys \in SUBSET {FullId(n, p), ToId(n), FromId(p), "default"}}
          : n \in RuleNextIds, p \in RulePrevIds }

RuleInit ==
  /\ dom = Regular(0)
  /\ attrForSelected = FALSE
  /\ animationClasses \in RuleTables
  /\ _selected = Undefined
  /\ _animating = FALSE
  /\ _inAnimationEnded = FALSE
  /\ _outAnimationEnded = FALSE
  /\ _inPage = NoElement
  /\ _outPage = NoElement
  /\ _currentClasses = NullRule
  /\ active = {}
  /\ classes = [e \in Elements |-> {}]
  /\ inListeners = {}
  /\ outListeners = {}
  /\ lastCall = Call("constructor", Undefined, Undefined, "", "")
  /\ startedBy = ""

\* this._currentClasses = this._animationClasses(next, prev)
MatchRule(next, prev) ==
  /\ _currentClasses' = AnimationClassesOf(animationClasses.rules, next, prev)
  /\ lastCall' = Call("_animationClasses", next, prev, "returned", "")
  /\ UNCHANGED <<config, _selected, _animating, _inAnimationEnded,
                 _outAnimationEnded, _inPage, _outPage, markers, listeners,
                 startedBy>>

RuleNext == \E next \in RuleNextIds, prev \in RulePrevIds : MatchRule(next, prev)

RuleSpec == RuleInit /\ [][RuleNext]_vars

\* C4: for every rule table and every previous/next pair the matcher returns
\* the rule 'prev_next' when the table has it; else '*_next' when the table has
\* it; else 'prev_*' when the table has it; else 'default'.  A lower rule is
\* never returned while a higher one that matches is present.
C4_MostSpecificRule ==
  lastCall.op = "_animationClasses" =>
    LET rules == animationClasses.rules
        p     == TemplateString(lastCall.prev)
        n     == TemplateString(lastCall.arg)
        full  == p \o "_" \o n
        to    == "*_" \o n
        from  == p \o "_*"
        has(k) == k \in DOMAIN rules
    IN /\ has(full) => _currentClasses = rules[full]
       /\ (~has(full) /\ has(to)) => _currentClasses = rules[to]
       /\ (~has(full) /\ ~has(to) /\ has(from)) => _currentClasses = rules[from]
       /\ (~has(full) /\ ~has(to) /\ ~has(from) /\ has("default")) =>
            _currentClasses = rules["default"]
       /\ (~has(full) /\ ~has(to) /\ ~has(from) /\ ~has("default")) =>
            _currentClasses = NoRule

\* C4 witness: '*_next' was returned from a table that also holds 'prev_*' and
\* 'default' but not 'prev_next'.
C4_Witness ==
  /\ lastCall.op = "_animationClasses"
  /\ lastCall.prev = Str("a")
  /\ lastCall.arg = Str("b")
  /\ DOMAIN animationClasses.rules = {"*_b", "a_*", "default"}
  /\ _currentClasses = Rule("*_b")

-----------------------------------------------------------------------------
\* C5: a select(next) that starts a transition while no page is selected
\* (selectedItem is null) uses the rule keyed '_next' whenever the table has
\* that key, whatever else the table holds ('*_next' and 'default' included),
\* with next an index and with next an attribute value.
C5_EmptyFromRule ==
  [][ (lastCall'.op = "select" /\ Starts /\ SelectedItem = NoElement
         /\ ("_" \o TemplateString(lastCall'.arg)) \in DOMAIN animationClasses.rules) =>
        _currentClasses' =
          animationClasses.rules["_" \o TemplateString(lastCall'.arg)]
    ]_vars

\* C5 witness (attribute mode): the first select("a") took '_a' from a table
\* that also holds '*_a' and 'default'.
C5_Witness ==
  /\ _animating
  /\ lastCall.op = "select"
  /\ lastCall.arg = Str("a")
  /\ lastCall.outcome = "begun"
  /\ _outPage = NoElement
  /\ {"_a", "*_a", "default"} \subseteq DOMAIN animationClasses.rules
  /\ _currentClasses = Rule("_a")
  /\ Rule("_a").in \in classes[_inPage]

\* C5, index mode: the first select(0) took '_0' from a table that also holds
\* '*_0' and 'default'.
C5_WitnessIndex ==
  /\ _animating
  /\ ~attrForSelected
  /\ lastCall.op = "select"
  /\ lastCall.arg = Num(0)
  /\ lastCall.outcome = "begun"
  /\ _outPage = NoElement
  /\ {"_0", "*_0", "default"} \subseteq DOMAIN animationClasses.rules
  /\ _currentClasses = Rule("_0")

-----------------------------------------------------------------------------
\* No page corresponds to next: no direct child carries the attribute value
\* next, or the index next is past the last child.
NoPageFor(next) ==
  \/ next.t = "string" /\ attrForSelected
       /\ ~\E p \in Pages : dom[p].attr = next
  \/ next.t = "number" /\ next.h >= 0 /\ next.h % 2 = 0
       /\ next.h \div 2 >= Cardinality(Pages)

\* The call of the step threw and left what a caller can observe as it was.
ThrewUnchanged ==
  /\ lastCall'.outcome = "threw"
  /\ UNCHANGED <<_selected, _animating, active, classes>>
  /\ SelectedItem' = SelectedItem

\* C6: select(next) throws when animationClasses is not defined, when next is
\* a string and attrForSelected is not defined, or when no page corresponds to
\* next; selected, selectedItem, isAnimating and every 'active' attribute and
\* class are then as before the call.
C6_ThrowsOnBadSelection ==
  [][ (lastCall'.op = "select"
         /\ \/ ~animationClasses.defined
            \/ lastCall'.arg.t = "string" /\ ~attrForSelected
            \/ NoPageFor(lastCall'.arg)) =>
        ThrewUnchanged
    ]_vars

\* C6 restricted to an idle element.
C6_Idle ==
  [][ (lastCall'.op = "select" /\ ~_animating
         /\ \/ ~animationClasses.defined
            \/ lastCall'.arg.t = "string" /\ ~attrForSelected
            \/ NoPageFor(lastCall'.arg)) =>
        ThrewUnchanged
    ]_vars

\* C6 restricted to an idle element and to a next that no element at any
\* depth under the host answers to.
C6_IdleNoElement ==
  [][ (lastCall'.op = "select" /\ ~_animating
         /\ \/ ~animationClasses.defined
            \/ lastCall'.arg.t = "string" /\ ~attrForSelected
            \/ NoPageFor(lastCall'.arg)
                 /\ ~\E e \in Elements : dom[e].attr = lastCall'.arg) =>
        ThrewUnchanged
    ]_vars

-----------------------------------------------------------------------------
\* next is a negative or non-integer number, or neither string nor number.
InvalidNext(next) ==
  \/ next.t = "number" /\ (next.h < 0 \/ next.h % 2 # 0)
  \/ next.t \notin {"string", "number"}

\* C7 as stated: in every state in which animationClasses is defined,
\* select(next) with an invalid next throws and starts no transition.
C7_ThrowsInEveryState ==
  [][ (lastCall'.op = "select" /\ animationClasses.defined
         /\ InvalidNext(lastCall'.arg)) =>
        lastCall'.outcome = "threw" /\ ~Starts
    ]_vars

\* C7, amended: in every state in which animationClasses is defined and no
\* animation is running, select(next) with an invalid next throws the error
\* 'next must be a string or a positive integer', starts no transition and
\* changes nothing; while an animation is running the call is ignored without
\* an error.
C7_ThrowsWhenIdle ==
  [][ (lastCall'.op = "select" /\ animationClasses.defined
         /\ InvalidNext(lastCall'.arg)) =>
        IF _animating
        THEN lastCall'.outcome = "ignored" /\ lastCall'.error = "" /\ _animating'
        ELSE /\ lastCall'.outcome = "threw"
             /\ lastCall'.error = "next must be a string or a positive integer"
             /\ ~_animating'
             /\ UNCHANGED <<_selected, active, classes, inListeners, outListeners>>
    ]_vars

\* C7 witness: select(-1) has just thrown on an idle element that has a
\* selected page.
C7_Witness ==
  /\ ~_animating
  /\ animationClasses.defined
  /\ lastCall.op = "select"
  /\ lastCall.arg = Num(-1)
  /\ lastCall.outcome = "threw"
  /\ SelectedItem # NoElement

-----------------------------------------------------------------------------
\* The page selectNext() is to move to: the next sibling of the selected
\* page, or the first child when no page is selected or the selected page is
\* the last child.
NextSiblingTarget ==
  LET cur == SelectedItem
  IN IF cur \notin Pages \/ IndexOf(cur) = Cardinality(Pages) - 1
     THEN CHOOSE p \in Pages : IndexOf(p) = 0
     ELSE CHOOSE p \in Pages : IndexOf(p) = IndexOf(cur) + 1

\* C8: with at least one child, animationClasses defined and no animation
\* running, selectNext() starts a transition to the next sibling of the
\* selected page (to the first child when none is selected or the selected one
\* is the last); once that transition settles selectedItem is the page it
\* moved to.
C8_SelectNext ==
  [][ /\ (lastCall'.op = "selectNext" /\ ~_animating /\ Pages # {}
            /\ animationClasses.defined) =>
           (Starts /\ _inPage' = NextSiblingTarget)
      /\ (Settles /\ startedBy = "selectNext") => SelectedItem' = _inPage
    ]_vars

\* C8, start only: an idle selectNext() either starts the transition to that
\* page or, when that page is the selected one already, does nothing.
C8_StartOrSame ==
  [][ (lastCall'.op = "selectNext" /\ ~_animating /\ Pages # {}
         /\ animationClasses.defined) =>
        IF NextSiblingTarget = SelectedItem
        THEN lastCall'.outcome = "same" /\ ~_animating'
        ELSE Starts /\ _inPage' = NextSiblingTarget
    ]_vars

\* C8, settling, without attrForSelected: selectedItem is the page moved to.
C8_SettleIndexMode ==
  [][ (Settles /\ startedBy = "selectNext" /\ ~attrForSelected) =>
        SelectedItem' = _inPage
    ]_vars

-----------------------------------------------------------------------------
\* C9: the page a select resolves and activates is a direct child of the
\* element: the inbound page of a running transition and every element that
\* carries 'active' are children of the host.
C9_DirectChild ==
  /\ _animating => _inPage \in Pages
  /\ active \subseteq Pages

\* C9, index: a next that is a number resolves to a direct child.
C9_IndexDirectChild ==
  (_animating /\ lastCall.outcome = "begun" /\ lastCall.arg.t = "number") =>
    _inPage \in Pages

-----------------------------------------------------------------------------
\* C10: markers of one transition for which a rule was found.  At its start
\* the inbound page gains 'active' and the rule's 'in' class, the outbound page
\* (if any) gains the rule's 'out' class and loses nothing, 'active' included.
\* When it settles the inbound page loses the 'in' class and keeps 'active',
\* the outbound page loses 'active' and the 'out' class.  In both steps every
\* other element keeps its classes and its 'active' attribute.
C10_MarkerToggling ==
  [][ /\ (IsCall /\ Starts /\ _currentClasses'.t = "object") =>
           LET i  == _inPage'
               o  == _outPage'
               cc == _currentClasses'
           IN /\ i \in Elements /\ i # o
              /\ active' = active \cup {i}
              /\ classes'[i] = classes[i] \cup {cc.in}
              /\ o # NoElement => classes'[o] = classes[o] \cup {cc.out}
              /\ \A e \in Elements \ {i, o} : classes'[e] = classes[e]
      /\ (Settles /\ _currentClasses.t = "object") =>
           LET i  == _inPage
               o  == _outPage
               cc == _currentClasses
           IN /\ cc.in \notin classes'[i]
              /\ classes'[i] = classes[i] \ {cc.in}
              /\ i \in active'
              /\ o # NoElement =>
                   /\ o \notin active'
                   /\ classes'[o] = classes[o] \ {cc.out}
              /\ \A e \in Elements \ {i, o} :
                   /\ classes'[e] = classes[e]
                   /\ (e \in active') = (e \in active)
    ]_vars

\* C10 witness: a transition between two pages is running; the inbound page
\* has 'active' and the 'in' class, the outbound page 'active' and the 'out'
\* class, a third page has neither.
C10_Witness ==
  /\ _animating
  /\ _currentClasses.t = "object"
  /\ _outPage # NoElement
  /\ {_inPage, _outPage} \subseteq active
  /\ classes[_inPage] = {_currentClasses.in}
  /\ classes[_outPage] = {_currentClasses.out}
  /\ \E e \in Pages \ {_inPage, _outPage} : e \notin active /\ classes[e] = {}

\* C10, settled: after a transition between two pages only the inbound page
\* is marked and no class is left.
C10_WitnessSettled ==
  /\ ~_animating
  /\ lastCall.outcome = "settled"
  /\ Cardinality(Pages) > 1
  /\ active = {SelectedItem}
  /\ \A e \in Elements : classes[e] = {}
  /\ _selected = Str("b")

-----------------------------------------------------------------------------
\* C11: whenever isAnimating is false no element carries a class the element
\* added and neither bound listener is attached to any element.  A listener
\* is attached only by the step that starts a transition (to the inbound
\* page, and to the outbound page if there is one); it is detached only by the
\* step in which its own event fires, which detaches the one listener that
\* was attached, so each is removed exactly once.
C11_CleanWhenIdle ==
  /\ [](~_animating =>
          /\ \A e \in Elements : classes[e] = {}
          /\ inListeners = {}
          /\ outListeners = {})
  /\ [][ /\ inListeners' # inListeners =>
              \/ /\ IsCall /\ Starts
                 /\ inListeners = {}
                 /\ inListeners' = {_inPage'}
              \/ /\ lastCall'.op = "_inAnimation"
                 /\ inListeners = {_inPage}
                 /\ inListeners' = {}
         /\ outListeners' # outListeners =>
              \/ /\ IsCall /\ Starts
                 /\ outListeners = {}
                 /\ outListeners' = {_outPage'}
              \/ /\ lastCall'.op = "_outAnimation"
                 /\ outListeners = {_outPage}
                 /\ outListeners' = {}
         /\ lastCall'.op = "_inAnimation" => inListeners' # inListeners
         /\ lastCall'.op = "_outAnimation" => outListeners' # outListeners
         /\ (IsCall /\ Starts) =>
              /\ inListeners' = {_inPage'}
              /\ outListeners' = (IF _outPage' # NoElement THEN {_outPage'} ELSE {})
     ]_vars

\* C11 witness: a transition between two pages has settled on the outbound
\* event; the element is idle, both listeners are detached and the classes of
\* the transition are gone, while the page moved to is marked active.
C11_Witness ==
  /\ ~_animating
  /\ lastCall.op = "_outAnimation"
  /\ lastCall.outcome = "settled"
  /\ inListeners = {} /\ outListeners = {}
  /\ \A e \in Elements : classes[e] = {}
  /\ Cardinality(active) = 1

====
